---- MODULE Spec2Model ----
(***************************************************************************)
(* Alien Probe business scanner: the Flask backend of                      *)
(* src/server/api_routes.py, src/server/storage_flask.py and               *)
(* src/server/flask_app.py as a state machine.                             *)
(*                                                                         *)
(*   Spec        the JSON API (POST /api/scan, GET /api/results,           *)
(*               GET /api/results/<id>) with the detached worker threads   *)
(*               that POST /api/scan starts                                *)
(*   StaticSpec  the routes of flask_app.py: the bundle, the health check  *)
(*               and the 404 / 500 error handlers                          *)
(*   StoreSpec   the data-access object FlaskStorage driven directly,      *)
(*               inside an application context                             *)
(*                                                                         *)
(* Python strings that the code inspects (strip, urlparse, len) are        *)
(* sequences of one-character strings.                                     *)
(***************************************************************************)
EXTENDS Integers, Sequences, FiniteSets, TLC

VARIABLES
    rows,       \* the scan_results table: a sequence of rows, in insertion order
    threads,    \* the worker threads started by create_scan, in start order
    clock,      \* datetime.utcnow(), in ticks
    bundle,     \* the files present in the static folder (server/dist)
    debug,      \* the DEBUG setting the server was started with
    calls,      \* the number of storage calls made directly (StoreSpec)
    last        \* the last request handled (or storage call made) and its answer

vars == <<rows, threads, clock, bundle, debug, calls, last>>

\* ---------------------------------------------------------------- bounds

MaxScans == 2
MaxClock == 1
MaxStoreOps == 4

\* ------------------------------------------------------- Python values

\* A nullable / optional string: a JSON field of the request body, or a
\* nullable column.  kind is "absent" (key not in the dict), "null" (None)
\* or "str".
Absent == [kind |-> "absent", s |-> <<>>]
Null == [kind |-> "null", s |-> <<>>]
Str(s) == [kind |-> "str", s |-> s]

Whitespace == {" "}
Letters == {"h", "a", "A"}
SchemeChars == Letters \cup {"+", "-", "."}

\* str.strip(): drop leading and trailing whitespace.
RECURSIVE LStrip(_)
LStrip(s) ==
    IF s # <<>> /\ Head(s) \in Whitespace THEN LStrip(Tail(s)) ELSE s

RECURSIVE RStrip(_)
RStrip(s) ==
    IF s # <<>> /\ s[Len(s)] \in Whitespace
    THEN RStrip(SubSeq(s, 1, Len(s) - 1))
    ELSE s

Strip(s) == RStrip(LStrip(s))

\* str.find(c): the first index of c in s (1-based), 0 when absent.
RECURSIVE FindFrom(_, _, _)
FindFrom(s, cs, i) ==
    IF i > Len(s) THEN 0
    ELSE IF s[i] \in cs THEN i
    ELSE FindFrom(s, cs, i + 1)

\* urllib.parse.urlparse(url), the two components validate_url reads.
\* scheme: the text before the first ':' when it starts with a letter and
\* holds only scheme characters; netloc: what follows a leading '//' up to
\* the next '/', '?' or '#'.
urlparse(url) ==
    LET i == FindFrom(url, {":"}, 1)
        hasScheme ==
            /\ i > 1
            /\ url[1] \in Letters
            /\ \A k \in 1..(i - 1) : url[k] \in SchemeChars
        scheme == IF hasScheme THEN SubSeq(url, 1, i - 1) ELSE <<>>
        rest == IF hasScheme THEN SubSeq(url, i + 1, Len(url)) ELSE url
        slashes == Len(rest) >= 2 /\ rest[1] = "/" /\ rest[2] = "/"
        d == FindFrom(rest, {"/", "?", "#"}, 3)
        delim == IF d = 0 THEN Len(rest) + 1 ELSE d
        netloc == IF slashes THEN SubSeq(rest, 3, delim - 1) ELSE <<>>
    IN [scheme |-> scheme, netloc |-> netloc]

validate_url(url) ==
    LET result == urlparse(url)
    IN result.scheme # <<>> /\ result.netloc # <<>>

\* ------------------------------------------------------------- json

\* A Python value held in a dict: t is its type, x its content as text
\* (a list is a list of strings).
PStr(s) == [t |-> "str", x |-> <<s>>]
PBool(b) == [t |-> "bool", x |-> <<IF b THEN "true" ELSE "false">>]
PInt(n) == [t |-> "int", x |-> <<ToString(n)>>]
PList(ss) == [t |-> "list", x |-> ss]

\* datetime.isoformat()
isoformat(t) == ToString(t)

\* A dict is a sequence of [k, v] pairs in insertion order.
HasKey(d, k) == \E i \in 1..Len(d) : d[i].k = k
Lookup(d, k) == d[CHOOSE i \in 1..Len(d) : d[i].k = k].v

\* dict.update(other): an existing key keeps its place and takes the new
\* value, a new key is appended.
SetItem(d, k, v) ==
    IF HasKey(d, k)
    THEN [i \in 1..Len(d) |-> IF d[i].k = k THEN [k |-> k, v |-> v] ELSE d[i]]
    ELSE Append(d, [k |-> k, v |-> v])

RECURSIVE DictUpdate(_, _)
DictUpdate(d, other) ==
    IF other = <<>> THEN d
    ELSE DictUpdate(SetItem(d, Head(other).k, Head(other).v), Tail(other))

\* json.dumps: the document as JSON text, a sequence of tokens.  A string
\* is the token "s" followed by its content, a number "n" followed by its
\* digits.
RECURSIVE DumpList(_)
DumpList(ss) ==
    IF ss = <<>> THEN <<>> ELSE <<"s", Head(ss)>> \o DumpList(Tail(ss))

DumpValue(v) ==
    CASE v.t = "str" -> <<"s", v.x[1]>>
      [] v.t = "int" -> <<"n", v.x[1]>>
      [] v.t = "bool" -> <<v.x[1]>>
      [] v.t = "list" -> <<"[">> \o DumpList(v.x) \o <<"]">>

RECURSIVE DumpPairs(_)
DumpPairs(d) ==
    IF d = <<>> THEN <<>>
    ELSE <<"s", Head(d).k>> \o DumpValue(Head(d).v) \o DumpPairs(Tail(d))

json_dumps(d) == <<"{">> \o DumpPairs(d) \o <<"}">>

\* json.loads: parse the tokens back into a dict.
RECURSIVE ParseList(_, _, _)
ParseList(toks, i, acc) ==
    IF toks[i] = "]" THEN [v |-> PList(acc), next |-> i + 1]
    ELSE ParseList(toks, i + 2, Append(acc, toks[i + 1]))

ParseValue(toks, i) ==
    CASE toks[i] = "s" -> [v |-> PStr(toks[i + 1]), next |-> i + 2]
      [] toks[i] = "n" -> [v |-> [t |-> "int", x |-> <<toks[i + 1]>>], next |-> i + 2]
      [] toks[i] \in {"true", "false"} -> [v |-> PBool(toks[i] = "true"), next |-> i + 1]
      [] toks[i] = "[" -> ParseList(toks, i + 1, <<>>)

RECURSIVE ParsePairs(_, _, _)
ParsePairs(toks, i, acc) ==
    IF toks[i] = "}" THEN acc
    ELSE LET val == ParseValue(toks, i + 2)
         IN ParsePairs(toks, val.next, SetItem(acc, toks[i + 1], val.v))

json_loads(toks) == ParsePairs(toks, 2, <<>>)

\* ----------------------------------------------------- server/models.py

\* ScanResult: one row of the scan_results table.  The primary key is
\* generated on insert and rows are never deleted, so the n-th row inserted
\* gets id n; created_at and updated_at default to the time of the insert.
NewScanResult(table, business_name, website, scan_data, status, now) ==
    [id |-> Len(table) + 1,
     businessName |-> business_name,
     website |-> website,
     status |-> status,
     scanData |-> scan_data,
     createdAt |-> now,
     updatedAt |-> now]

\* ScanResult.to_dict(): a detached copy of the row.
to_dict(row) == row

\* ------------------------------------------------ server/storage_flask.py

\* What a storage call gives back: the exception it raised ("none" when it
\* returned), the table afterwards, and the value returned, as a sequence
\* of rows (None is the empty sequence).
Returned(table, ret) == [exc |-> "none", rows |-> table, ret |-> ret]
Raised(exc, table) == [exc |-> exc, rows |-> table, ret |-> <<>>]

\* ScanResult.query and db.session: db is bound to the application with
\* db.init_app(app) (flask_app.py:32), so both need an application context
\* and raise RuntimeError without one; with one, they raise the driver's
\* error when the database does not answer.
SessionError(ctx, up) ==
    IF ~ctx THEN "RuntimeError"
    ELSE IF ~up THEN "OperationalError"
    ELSE "none"

FilterById(table, scan_id) ==
    SelectSeq(table, LAMBDA r : r.id = scan_id)

get_scan_result(table, scan_id, ctx, up) ==
    IF SessionError(ctx, up) # "none" THEN Raised(SessionError(ctx, up), table)
    ELSE LET result == FilterById(table, scan_id)
         IN Returned(table, IF result # <<>> THEN <<to_dict(result[1])>> ELSE <<>>)

\* The orders of the rows of table.
Orderings(table) ==
    LET n == Len(table)
    IN {[i \in 1..n |-> table[f[i]]] :
          f \in {g \in [1..n -> 1..n] : \A i, j \in 1..n : i # j => g[i] # g[j]}}

\* Mutant of OrderByCreatedAtDesc: ORDER BY created_at, oldest first.
OrderByCreatedAtAsc(table) ==
    {p \in Orderings(table) :
        \A i, j \in 1..Len(p) : i < j => p[i].createdAt <= p[j].createdAt}

\* ORDER BY created_at DESC: rows with equal created_at come in an order
\* the database chooses.
OrderByCreatedAtDesc(table) ==
    {p \in Orderings(table) :
        \A i, j \in 1..Len(p) : i < j => p[i].createdAt >= p[j].createdAt}

\* get_all_scan_results: the set of results the call can return.
get_all_scan_results(table, ctx, up) ==
    IF SessionError(ctx, up) # "none" THEN {Raised(SessionError(ctx, up), table)}
    ELSE {Returned(table, [i \in 1..Len(p) |-> to_dict(p[i])]) :
            p \in OrderByCreatedAtDesc(table)}

\* scan_data.get(key) / scan_data.get('status', 'pending') on the dict
\* handed to create_scan_result.
GetOr(v, default) == IF v.kind = "absent" THEN default ELSE v

\* Mutant of create_scan_result: the row is inserted although the commit
\* raises.
create_scan_result_inserts_on_error(table, scan_data, now, ctx, up) ==
    LET result == NewScanResult(table,
                      scan_data.businessName,
                      GetOr(scan_data.website, Null),
                      GetOr(scan_data.scanData, Null),
                      GetOr(scan_data.status, Str("pending")).s,
                      now)
    IN IF SessionError(ctx, up) # "none"
       THEN Raised(SessionError(ctx, up), Append(table, result))
       ELSE Returned(Append(table, result), <<to_dict(result)>>)

create_scan_result(table, scan_data, now, ctx, up) ==
    IF SessionError(ctx, up) # "none" THEN Raised(SessionError(ctx, up), table)
    ELSE LET result == NewScanResult(table,
                           scan_data.businessName,
                           GetOr(scan_data.website, Null),
                           GetOr(scan_data.scanData, Null),
                           GetOr(scan_data.status, Str("pending")).s,
                           now)
         IN Returned(Append(table, result), <<to_dict(result)>>)

\* update_scan_result: updates is a partial dict, each field a value or
\* Absent.
\* Mutant of ApplyUpdates: website and scanData are assigned whether or
\* not the partial update holds them.
ApplyUpdatesAll(result, updates, now) ==
    [result EXCEPT
        !.businessName = GetOr(updates.businessName, Str(@)).s,
        !.website = GetOr(updates.website, Null),
        !.scanData = GetOr(updates.scanData, Null),
        !.status = GetOr(updates.status, Str(@)).s,
        !.updatedAt = now]

ApplyUpdates(result, updates, now) ==
    [result EXCEPT
        !.businessName = GetOr(updates.businessName, Str(@)).s,
        !.website = GetOr(updates.website, @),
        !.scanData = GetOr(updates.scanData, @),
        !.status = GetOr(updates.status, Str(@)).s,
        !.updatedAt = now]

update_scan_result(table, scan_id, updates, now, ctx, up) ==
    IF SessionError(ctx, up) # "none" THEN Raised(SessionError(ctx, up), table)
    ELSE IF FilterById(table, scan_id) = <<>> THEN Returned(table, <<>>)
    ELSE LET k == CHOOSE i \in 1..Len(table) : table[i].id = scan_id
             result == ApplyUpdates(table[k], updates, now)
         IN Returned([table EXCEPT ![k] = result], <<to_dict(result)>>)

\* -------------------------------------------------- HTTP response bodies

\* A JSON response body: keys are the keys the document holds, the other
\* fields their values (a field whose key is absent holds a filler).  file
\* is the path of the file sent when the response is a file, not JSON
\* (<<>> when it is JSON).
NoBody ==
    [keys |-> {}, success |-> FALSE, error |-> "", message |-> "",
     details |-> <<>>, scanId |-> 0, results |-> <<>>, file |-> <<>>,
     status |-> "", timestamp |-> "", service |-> ""]

Response(status, body) == [status |-> status, body |-> body]

\* ------------------------------------------------- server/api_routes.py

\* Python truthiness of data.get('businessName') / data.get('website').
Truthy(v) == v.kind = "str" /\ v.s # <<>>

\* validate_scan_request(data): the list of messages, or the exception the
\* function raises: len(None) is a TypeError, None.strip() an
\* AttributeError.
validate_scan_request(data) ==
    LET e1 == IF ~Truthy(data.businessName)
              THEN <<"Business name is required">> ELSE <<>>
        name == GetOr(data.businessName, Str(<<>>))
        e2 == IF name.kind = "str" /\ Len(name.s) < 1
              THEN <<"Business name must be at least 1 character long">>
              ELSE <<>>
        site == GetOr(data.website, Str(<<>>))
        website == Strip(site.s)
        e3 == IF website # <<>> /\ ~validate_url(website)
              THEN <<"Please enter a valid URL">> ELSE <<>>
    IN IF name.kind = "null" THEN [exc |-> "TypeError", errors |-> <<>>]
       ELSE IF site.kind = "null" THEN [exc |-> "AttributeError", errors |-> <<>>]
       ELSE [exc |-> "none", errors |-> e1 \o e2 \o e3]

\* `not data`: None, or a dict with no key.
NoData(data) ==
    \/ data.kind = "null"
    \/ data.kind = "object" /\ data.businessName.kind = "absent"
                            /\ data.website.kind = "absent"

\* Mutant of InitialScanData: the document lacks the in-progress flag.
InitialScanDataNoFlag(data, now) ==
    <<[k |-> "timestamp", v |-> PStr(isoformat(now))],
      [k |-> "websiteAnalysis",
       v |-> PStr(IF Truthy(data.website) THEN "Website found and analyzed"
                  ELSE "No website provided")],
      [k |-> "businessScore", v |-> PInt(85)]>>

\* The scanData document create_scan builds (lines 61-66).
InitialScanData(data, now) ==
    <<[k |-> "timestamp", v |-> PStr(isoformat(now))],
      [k |-> "websiteAnalysis",
       v |-> PStr(IF Truthy(data.website) THEN "Website found and analyzed"
                  ELSE "No website provided")],
      [k |-> "businessScore", v |-> PInt(85)],
      [k |-> "scanning", v |-> PBool(TRUE)]>>

\* Mutant of InitialStatus: a status outside pending, scanning, completed.
InitialStatusProcessing == "processing"

\* The status create_scan stores (line 60).
InitialStatus == "scanning"

\* The dict handed to storage.create_scan_result (lines 57-67).
ScanData(data, now) ==
    [businessName |-> Strip(data.businessName.s),
     website |-> IF Strip(GetOr(data.website, Str(<<>>)).s) # <<>>
                 THEN Str(Strip(data.website.s)) ELSE Null,
     status |-> Str(InitialStatus),
     scanData |-> Str(json_dumps(InitialScanData(data, now)))]

\* The three canned insights (lines 77-81).
Insights ==
    <<"Strong online presence detected",
      "Potential for digital expansion",
      "Competitive market position">>

\* The keys complete_scan merges into the document (lines 74-83).
CompletionFields(now) ==
    <<[k |-> "completed", v |-> PBool(TRUE)],
      [k |-> "scanning", v |-> PBool(FALSE)],
      [k |-> "insights", v |-> PList(Insights)],
      [k |-> "completedAt", v |-> PStr(isoformat(now))]>>

\* scan_result['scanData'] or '{}'
OrEmptyDocument(v) == IF Truthy(v) THEN v.s ELSE <<"{", "}">>

\* The partial update complete_scan hands to storage.update_scan_result
\* (lines 73-88); scan_result is the copy create_scan_result returned.
CompletionUpdates(scan_result, now) ==
    LET completed_data ==
            DictUpdate(json_loads(OrEmptyDocument(scan_result.scanData)),
                       CompletionFields(now))
    IN [businessName |-> Absent,
        website |-> Absent,
        status |-> Str("completed"),
        scanData |-> Str(json_dumps(completed_data))]

\* The worker is a bare threading.Thread (lines 99-101): the application
\* context of the request that started it belongs to the request's thread,
\* and delayed_completion never pushes one.
WorkerContext == FALSE

\* A request handler runs inside the application context Flask pushes.
RequestContext == TRUE

\* complete_scan(), run by the worker: the storage call's outcome.
complete_scan(scan_result, table, now, up) ==
    update_scan_result(table, scan_result.id,
                       CompletionUpdates(scan_result, now), now,
                       WorkerContext, up)

\* A worker: the copy of the record its closure holds, where it is
\* (sleeping, done, or raised: ended by an exception) and the exception.
NewThread(scan_result) ==
    [scan_result |-> scan_result, pc |-> "sleeping", exc |-> "none"]

GenericError(error) ==
    [NoBody EXCEPT !.keys = {"success", "error"}, !.error = error]

\* What a handler does: the response, the table afterwards, and the
\* threads it started.
Handled(resp, table, started) ==
    [status |-> resp.status, body |-> resp.body, rows |-> table,
     started |-> started]

\* create_scan (POST /api/scan, lines 36-114).  data is request.get_json():
\* kind "malformed" is a body get_json() raises on.
create_scan(data, table, now, up) ==
    LET internal == Handled(Response(500, GenericError("Internal server error")),
                            table, <<>>)
        validation == validate_scan_request(data)
        created == create_scan_result(table, ScanData(data, now), now,
                                      RequestContext, up)
    IN IF data.kind = "malformed" THEN internal
       ELSE IF NoData(data)
       THEN Handled(Response(400, GenericError("No data provided")), table, <<>>)
       ELSE IF validation.exc # "none" THEN internal
       ELSE IF validation.errors # <<>>
       THEN Handled(Response(400,
                [NoBody EXCEPT !.keys = {"success", "error", "details"},
                               !.error = "Validation failed",
                               !.details = validation.errors]),
                table, <<>>)
       ELSE IF created.exc # "none"
       THEN Handled(Response(500, GenericError("Internal server error")),
                    created.rows, <<>>)
       ELSE Handled(Response(200,
                [NoBody EXCEPT !.keys = {"success", "scanId", "message"},
                               !.success = TRUE,
                               !.scanId = created.ret[1].id,
                               !.message = "Scan initiated successfully"]),
                created.rows, <<NewThread(created.ret[1])>>)

\* get_all_results (GET /api/results, lines 116-126): the responses the
\* handler can give.
get_all_results(table, up) ==
    {IF r.exc # "none"
     THEN Handled(Response(500, GenericError("Failed to fetch results")),
                  r.rows, <<>>)
     ELSE Handled(Response(200, [NoBody EXCEPT !.keys = {"results"},
                                               !.results = r.ret]),
                  r.rows, <<>>) :
       r \in get_all_scan_results(table, RequestContext, up)}

\* get_scan_result (GET /api/results/<scan_id>, lines 128-145).
get_scan_result_route(scan_id, table, up) ==
    LET r == get_scan_result(table, scan_id, RequestContext, up)
    IN IF r.exc # "none"
       THEN Handled(Response(500, GenericError("Failed to fetch result")),
                    r.rows, <<>>)
       ELSE IF r.ret = <<>>
       THEN Handled(Response(404, GenericError("Scan result not found")), r.rows, <<>>)
       ELSE Handled(Response(200, [NoBody EXCEPT !.keys = {"results"},
                                                 !.results = r.ret]),
                    r.rows, <<>>)

\* --------------------------------------------------- server/flask_app.py

\* A URL path or a file of the bundle is the sequence of its segments:
\* "api/app.js" is <<"api", "app.js">>.

\* path.startswith('api/') and request.path.startswith('/api/')
StartsWithApi(path) == Len(path) >= 2 /\ path[1] = "api"

\* What a view or an error handler does: it returns a response or raises.
Returns(resp) == [exc |-> "none", resp |-> resp]
Raises(exc) == [exc |-> exc, resp |-> Response(0, NoBody)]

\* send_from_directory(app.static_folder, path): the file, or
\* werkzeug.exceptions.NotFound when the folder holds no such file.
send_from_directory(dir, path) ==
    IF path \in dir
    THEN Returns(Response(200, [NoBody EXCEPT !.file = path]))
    ELSE Raises("NotFound")

ReactBuildNotFound ==
    Response(404,
        [NoBody EXCEPT
            !.keys = {"error", "message"},
            !.error = "React build not found",
            !.message = "Please ensure the React build files are in the dist folder"])

ApiNotFound ==
    Response(404, [NoBody EXCEPT !.keys = {"error"},
                                 !.error = "API endpoint not found"])

IndexHtml == <<"index.html">>

\* try: return <sent>  except FileNotFoundError: <fallback>.  NotFound is
\* an HTTPException, not an OSError: the clause lets it through.
ExceptFileNotFoundError(sent, fallback) ==
    IF sent.exc = "FileNotFoundError" THEN fallback ELSE sent

\* serve_react_app (GET /, lines 38-46)
serve_react_app(dir) ==
    ExceptFileNotFoundError(send_from_directory(dir, IndexHtml),
                            Returns(ReactBuildNotFound))

\* serve_static (GET /<path:path>, lines 49-65)
serve_static(path, dir) ==
    IF StartsWithApi(path) THEN Returns(ApiNotFound)
    ELSE ExceptFileNotFoundError(
            send_from_directory(dir, path),
            ExceptFileNotFoundError(send_from_directory(dir, IndexHtml),
                                    Returns(ReactBuildNotFound)))

\* The static view Flask itself registers at /<path:filename>, because the
\* application is built with static_folder and static_url_path=''
\* (lines 18-20).
send_static_file(filename, dir) == send_from_directory(dir, filename)

\* health_check (GET /api/health, lines 68-74)
health_check(now) ==
    Returns(Response(200,
        [NoBody EXCEPT
            !.keys = {"status", "timestamp", "service"},
            !.status = "healthy",
            !.timestamp = isoformat(now),
            !.service = "Alien Probe Business Scanner"]))

\* not_found, the 404 handler (lines 77-88)
not_found(request_path, dir) ==
    IF StartsWithApi(request_path) THEN Returns(ApiNotFound)
    ELSE ExceptFileNotFoundError(send_from_directory(dir, IndexHtml),
                                 Returns(ReactBuildNotFound))

\* str(error) of the exception handed to the 500 handler.
StrOfError(exc) ==
    CASE exc = "InternalServerError" ->
            "500 Internal Server Error: The server encountered an internal error"
      [] exc = "NotFound" ->
            "404 Not Found: The requested URL was not found on the server"
      [] OTHER -> exc

\* internal_error, the 500 handler (lines 90-95)
internal_error(error) ==
    Response(500,
        [NoBody EXCEPT
            !.keys = {"error", "message"},
            !.error = "Internal server error",
            !.message = StrOfError(error)])

\* The page of the interactive debugger: the traceback of the exception.
DebuggerPage(exc) ==
    Response(500, [NoBody EXCEPT !.keys = {"traceback"},
                                 !.message = StrOfError(exc)])

\* What Flask makes of a view's outcome, with the handlers registered at
\* lines 77 and 90 and the server started by app.run(debug=debug)
\* (line 115; run_flask.py line 60).  NotFound goes to not_found.  An
\* exception not_found raises, like any other unhandled one, propagates to
\* the debugger when debug is on; otherwise it goes to internal_error,
\* which is handed the exception itself or (wrapped) the
\* InternalServerError made from it, depending on the Flask release.
Dispatch(outcome, request_path, dir, dbg, wrapped) ==
    LET handled == IF outcome.exc = "NotFound"
                   THEN not_found(request_path, dir)
                   ELSE outcome
    IN IF handled.exc = "none" THEN handled.resp
       ELSE IF dbg THEN DebuggerPage(handled.exc)
       ELSE internal_error(IF wrapped THEN "InternalServerError"
                           ELSE handled.exc)

\* ------------------------------------------------------------ requests

\* The businessName and website fields a request body can carry.
BusinessNames ==
    {Absent, Null, Str(<<>>), Str(<<" ">>), Str(<<"A">>)}

Websites ==
    {Absent, Null, Str(<<" ">>), Str(<<"a">>), Str(<<"/", "/", "a">>),
     Str(<<"h", ":", "a">>), Str(<<"h", ":", "/", "/", "a">>),
     Str(<<" ", "h", ":", "/", "/", "a">>)}

Body(kind, b, w) == [kind |-> kind, businessName |-> b, website |-> w]

\* request.get_json(): a body that does not parse, the JSON null, or an
\* object with the two fields present or not.
ScanRequests ==
    {Body("malformed", Absent, Absent), Body("null", Absent, Absent)}
    \cup {Body("object", b, w) : b \in BusinessNames, w \in Websites}

\* One request of each kind of outcome, for the runs that interleave
\* requests with the workers.
ScanRequestSamples ==
    {Body("malformed", Absent, Absent),
     Body("object", Absent, Absent),
     Body("object", Null, Absent),
     Body("object", Str(<<" ">>), Absent),
     Body("object", Str(<<"A">>), Absent),
     Body("object", Str(<<"A">>), Str(<<"a">>)),
     Body("object", Str(<<"A">>), Str(<<" ", "h", ":", "/", "/", "a">>))}

\* The ids a client can ask for: those of the rows there can be, and one
\* no row has.
ScanIds == 1..(MaxScans + 1)

\* The record of a request and the answer it got.
Exchange(op, req, resp) ==
    [op |-> op, req |-> req, status |-> resp.status, body |-> resp.body]

\* ---------------------------------------------------------------- Spec

BundleFiles == {<<"index.html">>, <<"app.js">>, <<"api", "app.js">>}

Init ==
    /\ rows = <<>>
    /\ threads = <<>>
    /\ clock = 0
    /\ calls = 0
    /\ bundle = BundleFiles
    /\ debug = FALSE
    /\ last = [op |-> "none", req |-> 0, status |-> 0, body |-> NoBody]

\* POST /api/scan, the database answering (up) or not.
CreateScan ==
    \E data \in ScanRequestSamples, up \in BOOLEAN :
        LET h == create_scan(data, rows, clock, up)
        IN /\ Len(h.rows) <= MaxScans
           /\ rows' = h.rows
           /\ threads' = threads \o h.started
           /\ last' = Exchange("create_scan", data, h)
           /\ UNCHANGED <<clock, bundle, debug, calls>>

\* GET /api/results
GetAllResults ==
    \E up \in BOOLEAN :
        \E h \in get_all_results(rows, up) :
            /\ rows' = h.rows
            /\ threads' = threads \o h.started
            /\ last' = Exchange("get_all_results", 0, h)
            /\ UNCHANGED <<clock, bundle, debug, calls>>

\* GET /api/results/<scan_id>
GetScanResult ==
    \E scan_id \in ScanIds, up \in BOOLEAN :
        LET h == get_scan_result_route(scan_id, rows, up)
        IN /\ rows' = h.rows
           /\ threads' = threads \o h.started
           /\ last' = Exchange("get_scan_result", scan_id, h)
           /\ UNCHANGED <<clock, bundle, debug, calls>>

\* delayed_completion (lines 95-97) in worker i: the sleep is over and
\* complete_scan runs; an exception it raises ends the thread.
DelayedCompletion ==
    \E i \in 1..Len(threads), up \in BOOLEAN :
        /\ threads[i].pc = "sleeping"
        /\ LET r == complete_scan(threads[i].scan_result, rows, clock, up)
           IN /\ rows' = r.rows
              /\ threads' = [threads EXCEPT
                    ![i].pc = IF r.exc = "none" THEN "done" ELSE "raised",
                    ![i].exc = r.exc]
        /\ UNCHANGED <<clock, bundle, debug, calls, last>>

\* Time passes.
Tick ==
    /\ clock < MaxClock
    /\ clock' = clock + 1
    /\ UNCHANGED <<rows, threads, bundle, debug, calls, last>>

Next ==
    \/ CreateScan
    \/ GetAllResults
    \/ GetScanResult
    \/ DelayedCompletion
    \/ Tick

Spec == Init /\ [][Next]_vars

\* ------------------------------------------------------------ ScanSpec

\* POST /api/scan alone, over every request body.
SubmitScan ==
    \E data \in ScanRequests, up \in BOOLEAN :
        LET h == create_scan(data, rows, clock, up)
        IN /\ Len(h.rows) <= MaxScans
           /\ rows' = h.rows
           /\ threads' = threads \o h.started
           /\ last' = Exchange("create_scan", data, h)
           /\ UNCHANGED <<clock, bundle, debug, calls>>

ScanNext ==
    \/ SubmitScan
    \/ Tick

ScanSpec == Init /\ [][ScanNext]_vars

\* ---------------------------------------------------------- StaticSpec

\* The paths requested.
StaticPaths ==
    {<<"index.html">>, <<"app.js">>, <<"dashboard">>, <<"api">>,
     <<"api", "app.js">>, <<"api", "missing">>}

StaticInit ==
    /\ rows = <<>>
    /\ threads = <<>>
    /\ clock = 0
    /\ calls = 0
    /\ bundle \in SUBSET BundleFiles
    /\ debug \in BOOLEAN
    /\ last = [op |-> "none", req |-> <<>>, status |-> 0, body |-> NoBody]

\* GET /
GetRoot ==
    \E wrapped \in BOOLEAN :
        /\ last' = Exchange("serve_react_app", <<>>,
                    Dispatch(serve_react_app(bundle), <<>>, bundle, debug, wrapped))
        /\ UNCHANGED <<rows, threads, clock, bundle, debug, calls>>

\* GET /<path>, matched by the rule of serve_static
GetPath ==
    \E path \in StaticPaths, wrapped \in BOOLEAN :
        /\ last' = Exchange("serve_static", path,
                    Dispatch(serve_static(path, bundle), path, bundle, debug, wrapped))
        /\ UNCHANGED <<rows, threads, clock, bundle, debug, calls>>

\* GET /<path>, matched by the rule of Flask's static view, which has the
\* same shape
GetStaticFile ==
    \E path \in StaticPaths, wrapped \in BOOLEAN :
        /\ last' = Exchange("static", path,
                    Dispatch(send_static_file(path, bundle), path, bundle, debug, wrapped))
        /\ UNCHANGED <<rows, threads, clock, bundle, debug, calls>>

\* GET /api/health
GetHealth ==
    \E wrapped \in BOOLEAN :
        /\ last' = Exchange("health_check", <<"api", "health">>,
                    Dispatch(health_check(clock), <<"api", "health">>, bundle,
                             debug, wrapped))
        /\ UNCHANGED <<rows, threads, clock, bundle, debug, calls>>

StaticNext ==
    \/ GetRoot
    \/ GetPath
    \/ GetStaticFile
    \/ GetHealth
    \/ Tick

StaticSpec == StaticInit /\ [][StaticNext]_vars

\* ----------------------------------------------------------- StoreSpec

\* The dicts handed to create_scan_result: one with the required key only,
\* and the one create_scan builds.
StoreCreateInputs(now) ==
    {[businessName |-> <<"A">>, website |-> Absent, status |-> Absent,
      scanData |-> Absent],
     ScanData(Body("object", Str(<<"A">>), Str(<<"h", ":", "/", "/", "a">>)), now)}

NoUpdates ==
    [businessName |-> Absent, website |-> Absent, status |-> Absent,
     scanData |-> Absent]

\* The partial updates handed to update_scan_result: one field each, none,
\* and the one complete_scan builds from a copy of a row.
PartialUpdates(table, now) ==
    {NoUpdates,
     [NoUpdates EXCEPT !.status = Str("completed")],
     [NoUpdates EXCEPT !.businessName = Str(<<"B">>)],
     [NoUpdates EXCEPT !.website = Null]}
    \cup {CompletionUpdates(to_dict(table[i]), now) : i \in 1..Len(table)}

\* The record of a storage call and its outcome.
Call(op, req, r) ==
    [op |-> op, req |-> req, status |-> 0,
     body |-> [NoBody EXCEPT !.error = r.exc, !.results = r.ret]]

\* The calls are made inside an application context, the database
\* answering.
StoreCreate ==
    \E scan_data \in StoreCreateInputs(clock) :
        LET r == create_scan_result(rows, scan_data, clock, RequestContext, TRUE)
        IN /\ calls < MaxStoreOps
           /\ Len(r.rows) <= MaxScans
           /\ rows' = r.rows
           /\ calls' = calls + 1
           /\ last' = Call("create_scan_result", scan_data, r)
           /\ UNCHANGED <<threads, clock, bundle, debug>>

StoreUpdate ==
    \E scan_id \in ScanIds, updates \in PartialUpdates(rows, clock) :
        LET r == update_scan_result(rows, scan_id, updates, clock,
                                    RequestContext, TRUE)
        IN /\ calls < MaxStoreOps
           /\ rows' = r.rows
           /\ calls' = calls + 1
           /\ last' = Call("update_scan_result",
                           [scan_id |-> scan_id, updates |-> updates], r)
           /\ UNCHANGED <<threads, clock, bundle, debug>>

StoreGet ==
    \E scan_id \in ScanIds :
        LET r == get_scan_result(rows, scan_id, RequestContext, TRUE)
        IN /\ calls < MaxStoreOps
           /\ rows' = r.rows
           /\ calls' = calls + 1
           /\ last' = Call("get_scan_result", scan_id, r)
           /\ UNCHANGED <<threads, clock, bundle, debug>>

StoreGetAll ==
    \E r \in get_all_scan_results(rows, RequestContext, TRUE) :
        /\ calls < MaxStoreOps
        /\ rows' = r.rows
        /\ calls' = calls + 1
        /\ last' = Call("get_all_scan_results", 0, r)
        /\ UNCHANGED <<threads, clock, bundle, debug>>

StoreNext ==
    \/ StoreCreate
    \/ StoreUpdate
    \/ StoreGet
    \/ StoreGetAll
    \/ Tick

StoreSpec == Init /\ [][StoreNext]_vars

\* ============================================================== claims

\* The scanData document of a row, parsed.
Document(row) == json_loads(OrEmptyDocument(row.scanData))

\* The state create_scan leaves a record in.
PreCompletion(row) ==
    /\ row.status = "scanning"
    /\ HasKey(Document(row), "scanning")
    /\ Lookup(Document(row), "scanning") = PBool(TRUE)
    /\ ~HasKey(Document(row), "insights")
    /\ ~HasKey(Document(row), "completedAt")

\* The state complete_scan is to leave a record in.
Completed(row) ==
    /\ row.status = "completed"
    /\ HasKey(Document(row), "insights")
    /\ Lookup(Document(row), "insights").t = "list"
    /\ Len(Lookup(Document(row), "insights").x) = 3
    /\ HasKey(Document(row), "completedAt")

\* The workers started for the record scan_id.
WorkersIn(started, scan_id) ==
    {i \in 1..Len(started) : started[i].scan_result.id = scan_id}

WorkersOf(scan_id) == WorkersIn(threads, scan_id)

\* Worker i's completion step runs in this step.
CompletionStepOf(i) ==
    /\ i \in 1..Len(threads)
    /\ threads[i].pc = "sleeping"
    /\ threads'[i].pc # "sleeping"

\* ------------------------------------------------------------------ C1
\* C1 (as claimed): once the completion step of a successful POST /api/scan
\* has run, the database answering, the record it was started for is
\* stored with status "completed", exactly three insights and a
\* completedAt timestamp.
C1_CompletionIsPersisted ==
    \A i \in 1..Len(threads) :
        (threads[i].pc # "sleeping" /\ threads[i].exc # "OperationalError") =>
            \E k \in 1..Len(rows) :
                /\ rows[k].id = threads[i].scan_result.id
                /\ Completed(rows[k])

\* ------------------------------------------------------------------ C2
\* A read (GET /api/results/<id> or GET /api/results) shows every record
\* whose completion step has not run yet in its pre-completion state.
C2_ReadsBeforeCompletion ==
    (last.op \in {"get_scan_result", "get_all_results"} /\ last.status = 200) =>
        \A n \in 1..Len(last.body.results) :
            LET row == last.body.results[n]
            IN (\A i \in WorkersOf(row.id) : threads[i].pc = "sleeping")
                    => PreCompletion(row)

\* When a successful POST /api/scan returns, the record is visible through
\* GET /api/results/<id> with status "scanning", and its completion step
\* has been started but has not run.
C2_PostReturnsAtOnce ==
    (CreateScan /\ last'.status = 200) =>
        LET read == get_scan_result_route(last'.body.scanId, rows', TRUE)
        IN /\ read.status = 200
           /\ PreCompletion(read.body.results[1])
           /\ WorkersIn(threads', last'.body.scanId) # {}
           /\ \A i \in WorkersIn(threads', last'.body.scanId) :
                threads'[i].pc = "sleeping"

\* C2: after a successful POST /api/scan the record is at once visible with
\* status "scanning", the response does not wait for the completion step,
\* and every read before the completion step sees the pre-completion state.
C2_VisibleScanningUntilCompletion ==
    [] C2_ReadsBeforeCompletion /\ [][C2_PostReturnsAtOnce]_vars

C2_Witness ==
    /\ last.op = "get_scan_result"
    /\ last.status = 200
    /\ last.body.results[1].status = "scanning"
    /\ \E i \in WorkersOf(last.req) : threads[i].pc = "sleeping"

\* ------------------------------------------------------------------ C3
MissingOrEmpty(b) == b.kind \in {"absent", "null"} \/ b.s = <<>>

\* website is present and does not parse to a scheme and a host.
PresentAndInvalid(w) ==
    /\ w.kind = "str"
    /\ urlparse(w.s).scheme = <<>> \/ urlparse(w.s).netloc = <<>>

\* C3 (as claimed): POST /api/scan answers 400 with an itemized list of
\* messages when businessName is missing or empty or website is present
\* and not a valid absolute URL, a body with no fields included; it rejects
\* no other body.
C3_ValidationFailures ==
    (last.op = "create_scan" /\ last.req.kind = "object") =>
        IF MissingOrEmpty(last.req.businessName)
           \/ PresentAndInvalid(last.req.website)
        THEN /\ last.status = 400
             /\ "details" \in last.body.keys
             /\ last.body.details # <<>>
        ELSE last.status # 400

\* ------------------------------------------------------------------ C4
UpdatableFields == {"businessName", "website", "scanData", "status"}

\* What one update_scan_result(scan_id, updates) call at time now may do
\* to the table, and what it returns.
UpdateFrame(before, after, scan_id, updates, ret, now) ==
    IF \E k \in 1..Len(before) : before[k].id = scan_id
    THEN /\ Len(after) = Len(before)
         /\ \A k \in 1..Len(before) :
              IF before[k].id # scan_id THEN after[k] = before[k]
              ELSE /\ after[k].id = before[k].id
                   /\ after[k].createdAt = before[k].createdAt
                   /\ \A f \in UpdatableFields :
                        updates[f].kind = "absent" => after[k][f] = before[k][f]
                   /\ after[k].updatedAt = now
                   /\ ret = <<after[k]>>
    ELSE /\ after = before
         /\ ret = <<>>

\* C4: update_scan_result changes only the fields present in the partial
\* update, and updatedAt, which it sets to the current time; it returns the
\* updated record; for an id no row has it returns None and changes
\* nothing.
C4_UpdateChangesOnlyGivenFields ==
    [][(last'.op = "update_scan_result" /\ calls' = calls + 1) =>
          UpdateFrame(rows, rows', last'.req.scan_id, last'.req.updates,
                      last'.body.results, clock)]_vars

C4_Witness ==
    /\ last.op = "update_scan_result"
    /\ last.req.updates = [NoUpdates EXCEPT !.status = Str("completed")]
    /\ last.body.results # <<>>
    /\ last.body.results[1].status = "completed"
    /\ last.body.results[1].scanData.kind = "str"
    /\ last.body.results[1].updatedAt > last.body.results[1].createdAt

\* ------------------------------------------------------------------ C5
GenericMessages ==
    {"", "Internal server error", "Failed to fetch results",
     "Failed to fetch result", StrOfError("InternalServerError")}

\* C5 (as claimed): every 500 response, of every endpoint, is a JSON
\* document that carries a generic message and nothing of the underlying
\* error; GET /api/results/<unknown id> with the database answering is a
\* 404.
C5_InternalErrorsAreGeneric ==
    /\ last.status = 500 =>
          /\ last.body.keys \subseteq {"success", "error", "message"}
          /\ last.body.error \in GenericMessages
          /\ last.body.message \in GenericMessages
    /\ (last.op = "get_scan_result" /\ last.status = 500) =>
          get_scan_result_route(last.req, rows, TRUE).status # 404

\* ------------------------------------------------------------------ C6
\* listing holds every row of table once, newest first.
NewestFirstListing(listing, table) ==
    /\ Len(listing) = Len(table)
    /\ \A k \in 1..Len(table) :
         Cardinality({n \in 1..Len(listing) : listing[n] = table[k]}) = 1
    /\ \A m, n \in 1..Len(listing) :
         m < n => ~(listing[m].createdAt < listing[n].createdAt)

\* C6: GET /api/results returns every stored record exactly once, no
\* record before one created later (the empty list when there is none).
C6_ResultsNewestFirst ==
    [][(GetAllResults /\ last'.status = 200) =>
          NewestFirstListing(last'.body.results, rows)]_vars

C6_Witness ==
    /\ last.op = "get_all_results"
    /\ last.status = 200
    /\ Len(last.body.results) >= 2
    /\ last.body.results[1].createdAt > last.body.results[2].createdAt
    /\ last.body.results[1].id > last.body.results[2].id
    /\ \E i \in 1..Len(threads) : threads[i].pc # "sleeping"

\* ------------------------------------------------------------------ C7
IsPrefix(s, t) == Len(s) <= Len(t) /\ SubSeq(t, 1, Len(s)) = s

C7_PostEffects ==
    CreateScan =>
        IF last'.status = 200
        THEN /\ Len(rows') = Len(rows) + 1
             /\ IsPrefix(rows, rows')
             /\ rows'[Len(rows')].id = last'.body.scanId
             /\ Len(threads') = Len(threads) + 1
             /\ IsPrefix(threads, threads')
             /\ threads'[Len(threads')].scan_result.id = last'.body.scanId
             /\ threads'[Len(threads')].pc = "sleeping"
        ELSE /\ last'.status \in {400, 500}
             /\ rows' = rows
             /\ threads' = threads

C7_GetEffects ==
    (GetAllResults \/ GetScanResult) => (rows' = rows /\ threads' = threads)

C7_CompletionEffects ==
    \A i \in 1..Len(threads) :
        CompletionStepOf(i) =>
            /\ Len(rows') = Len(rows)
            /\ Len(threads') = Len(threads)
            /\ \A k \in 1..Len(rows) :
                 rows[k].id # threads[i].scan_result.id => rows'[k] = rows[k]

AnswersWithFile(path) == last.status = 200 /\ last.body.file = path

AnswersWith(resp) == last.status = resp.status /\ last.body = resp.body

EntryDocumentOrNotFound ==
    IF IndexHtml \in bundle THEN AnswersWithFile(IndexHtml)
    ELSE AnswersWith(ReactBuildNotFound)

\* C8 (as claimed): an API path is never answered with a file and, when no
\* API route matches it, gets the JSON 404; another path gets its file of
\* the bundle, else the entry document; with the entry document missing,
\* the root and the fallback get the descriptive JSON 404 (the server
\* started with DEBUG off).
C8_RoutingPriority ==
    (last.op \in {"serve_react_app", "serve_static", "static"} /\ ~debug) =>
        IF StartsWithApi(last.req) THEN AnswersWith(ApiNotFound)
        ELSE IF last.req \in bundle THEN AnswersWithFile(last.req)
        ELSE EntryDocumentOrNotFound

\* ------------------------------------------------------------------ C9
\* C9 (as claimed): no stored record has an empty businessName.
C9_BusinessNameNeverEmpty ==
    \A k \in 1..Len(rows) : rows[k].businessName # <<>>

\* ----------------------------------------------------------------- C10
StatusValues == {"pending", "scanning", "completed"}

C10_StatusInRange ==
    \A k \in 1..Len(rows) : rows[k].status \in StatusValues

C10_Step ==
    /\ Len(rows') >= Len(rows)
    /\ \A k \in 1..Len(rows) :
         /\ rows'[k].id = rows[k].id
         /\ rows[k].status = "completed" => rows'[k].status = "completed"
         /\ rows'[k] # rows[k] =>
              \E i \in WorkersOf(rows[k].id) : CompletionStepOf(i)
    /\ \A i \in 1..Len(threads) :
         /\ i <= Len(threads')
         /\ threads'[i].scan_result.id = threads[i].scan_result.id
         /\ threads[i].pc # "sleeping" => threads'[i].pc # "sleeping"
    /\ \A i, j \in 1..Len(threads') :
         threads'[i].scan_result.id = threads'[j].scan_result.id => i = j

\* C10: under every interleaving of requests and completion steps a
\* record's status is pending, scanning or completed, its id never changes,
\* a completed record stays completed, and a record is changed by nothing
\* but the one completion step of its own worker, which runs once.
C10_StatusMovesForward ==
    [] C10_StatusInRange /\ [][C10_Step]_vars

C10_Witness ==
    /\ Len(rows) = MaxScans
    /\ \A i \in 1..Len(threads) : threads[i].pc # "sleeping"
    /\ last.op = "get_all_results"
    /\ last.status = 200

====
